---------------------------- MODULE Spec2Model ----------------------------
(***************************************************************************)
(* Model of hive_reporting.py: SIRPPipeline.                               *)
(*                                                                         *)
(* Representation notes.                                                   *)
(*  - A Python value that may be None / NaN is a sequence of length 0 or 1 *)
(*    (None, Some(v)), so that "absent" compares with any present value.   *)
(*  - A raw record is a function whose DOMAIN is the set of JSON keys the  *)
(*    record has; record["k"] with k outside the DOMAIN is a KeyError.     *)
(*  - An epoch-millisecond timestamp t is the pair [s, ms] with            *)
(*    t = s * 1000 + ms, 0 <= ms < 1000 (the products exceed the range of  *)
(*    the model checker's integers).  "/" is Python 3 true division.       *)
(*  - Dates are day numbers since 1970-01-01; the process time zone is UTC.*)
(*  - A string or int used as a pandas label is PyStr(s) or PyInt(n):      *)
(*    as in Python, "1" and 1 are different labels.                        *)
(***************************************************************************)
EXTENDS Integers, Sequences, FiniteSets, TLC

(* ------------------------------ bounds -------------------------------- *)
MaxLen == 2
BaseDay == 100

(* -------------------------- python values ----------------------------- *)
None == <<>>
Some(v) == <<v>>
NaN == <<>>
PyStr(s) == [str |-> s]
PyInt(n) == [int |-> n]

(* ------------------------- class attributes --------------------------- *)
data_frame_INDEX == <<"Created", "Severity", "Owner", "Name", "Closed", "Resolution">>

counts_frame_INDEX ==
  << PyStr("totals"),
     PyStr("Team.Member"), PyStr("Team.Member1"), PyStr("Team.Member2"),
     PyStr("Team.Member3"), PyStr("Team.Member4"), PyStr("Team.Member5"),
     PyStr("Team.Member6"),
     PyStr("Duplicated"), PyStr("TruePositive"), PyStr("FalsePositive"),
     PyInt(1), PyInt(2), PyInt(3) >>

Range(seq) == {seq[n] : n \in 1..Len(seq)}

(* ------------------------------- time --------------------------------- *)
SecondsPerDay == 24 * 60 * 60
Days30 == 30
Days60 == 60

\* time.mktime(d.timetuple()) for a date d: local (UTC) midnight, whole seconds
mktime(d) == d * SecondsPerDay

\* After with >= for >
After_ge(t, cutoff) == t.s >= cutoff

\* record["createdAt"] / 1000 > cutoff, cutoff a whole number of seconds
After(t, cutoff) == \/ t.s > cutoff
                    \/ t.s = cutoff /\ t.ms > 0

IsLeap(y) == (y % 4 = 0 /\ y % 100 # 0) \/ y % 400 = 0
DaysInYear(y) == IF IsLeap(y) THEN 366 ELSE 365
DaysInMonth(y, m) ==
  IF m = 2 THEN (IF IsLeap(y) THEN 29 ELSE 28)
  ELSE IF m \in {4, 6, 9, 11} THEN 30 ELSE 31

RECURSIVE YearOf(_, _)
YearOf(d, y) == IF d < DaysInYear(y) THEN <<y, d>> ELSE YearOf(d - DaysInYear(y), y + 1)

RECURSIVE MonthOf(_, _, _)
MonthOf(d, y, m) ==
  IF d < DaysInMonth(y, m) THEN <<m, d + 1>> ELSE MonthOf(d - DaysInMonth(y, m), y, m + 1)

\* time.gmtime(t / 1000.0): the broken-down UTC time of the whole second
gmtime(t) ==
  LET yd == YearOf(t.s \div SecondsPerDay, 1970)
      md == MonthOf(yd[2], yd[1], 1)
      r  == t.s % SecondsPerDay
  IN [tm_year |-> yd[1], tm_mon |-> md[1], tm_mday |-> md[2],
      tm_hour |-> r \div 3600, tm_min |-> (r % 3600) \div 60, tm_sec |-> r % 60]

\* time.strftime(TIME_FMT, tm), TIME_FMT = "%m/%d/%Y %H:%M:%S": the six
\* numbers of the string, in the order the format prints them
strftime(tm) == <<tm.tm_mon, tm.tm_mday, tm.tm_year, tm.tm_hour, tm.tm_min, tm.tm_sec>>


(* ------------------------------ state --------------------------------- *)
VARIABLES
  api_response,          \* self._api_response: [status_code, json]
  today_date,            \* the date datetime.date.today() returns
  _dataset,              \* self._dataset
  _all30_dict,           \* self._all30_dict
  _all60_dict,           \* self._all60_dict
  _all90_dict,           \* self._all90_dict
  _data_frame_30days,    \* self._data_frame_30days
  _data_frame_60days,    \* self._data_frame_60days
  _data_frame_90days,    \* self._data_frame_90days
  _data_frame_counts,    \* self._data_frame_counts
  xlsx_file,             \* the file "Hive Metrics.xlsx"
  sent_mail,             \* the message handed to smtp.sendmail
  exc,                   \* the uncaught exception that ended run(), if any
  pc                     \* the statement of run() to execute next

vars == <<api_response, today_date, _dataset, _all30_dict, _all60_dict, _all90_dict,
          _data_frame_30days, _data_frame_60days, _data_frame_90days,
          _data_frame_counts, xlsx_file, sent_mail, exc, pc>>

buckets == <<_all30_dict, _all60_dict, _all90_dict>>
frames == <<_data_frame_30days, _data_frame_60days, _data_frame_90days, _data_frame_counts>>

(* ---------------------------- _add_record ----------------------------- *)
\* d[key] = value on a dict
SetItem(d, key, value) == [k \in DOMAIN d \cup {key} |-> IF k = key THEN value ELSE d[k]]

\* d.update(other)
Update(d, other) ==
  [k \in DOMAIN d \cup DOMAIN other |-> IF k \in DOMAIN other THEN other[k] ELSE d[k]]

\* the KeyError of record[k] for a missing k
KeyError(k, i) == [type |-> "KeyError", key |-> k, index |-> i]

\* the first key of ks, in order, that record lacks; None if it has them all
RECURSIVE FirstMissing(_, _)
FirstMissing(record, ks) ==
  IF ks = <<>> THEN None
  ELSE IF Head(ks) \notin DOMAIN record THEN Some(Head(ks))
  ELSE FirstMissing(record, Tail(ks))

\* _add_record(days_dict, record, key): the dict afterwards and the exception raised
_add_record(days_dict, record, key) ==
  LET missing == FirstMissing(record, <<"title", "owner", "severity", "createdAt">>)
  IN IF missing # None
     THEN [dict |-> days_dict, exc |-> Some(KeyError(missing[1], key))]
     ELSE
       LET entry == [Name     |-> record["title"],
                     Owner    |-> record["owner"],
                     Severity |-> record["severity"],
                     Created  |-> strftime(gmtime(record["createdAt"]))]
           stored == SetItem(days_dict, key, entry)
       IN IF "endDate" \in DOMAIN record
          THEN IF "resolutionStatus" \in DOMAIN record
               THEN [dict |-> SetItem(stored, key,
                                Update(stored[key],
                                       [Closed     |-> strftime(gmtime(record["endDate"])),
                                        Resolution |-> record["resolutionStatus"]])),
                     exc  |-> None]
               ELSE [dict |-> stored, exc |-> Some(KeyError("resolutionStatus", key))]
          ELSE [dict |-> stored, exc |-> None]

(* -------------------------- _fill_day_dicts --------------------------- *)
\* BucketOf with the 60-day test before the 30-day test
BucketOf_swapped(record, today) ==
  IF After(record["createdAt"], mktime(today - Days60)) THEN "d60"
  ELSE IF After(record["createdAt"], mktime(today - Days30)) THEN "d30"
  ELSE "d90"

\* the if / elif / else of the loop body: the dict the record is added to
BucketOf(record, today) ==
  IF After(record["createdAt"], mktime(today - Days30)) THEN "d30"
  ELSE IF After(record["createdAt"], mktime(today - Days60)) THEN "d60"
  ELSE "d90"

\* enumerate that hands out the index 0 to every record
enumerate_samekey(dataset) == [n \in 1..Len(dataset) |-> <<0, dataset[n]>>]

\* enumerate(dataset): the n-th record paired with its index n - 1
enumerate(dataset) == [n \in 1..Len(dataset) |-> <<n - 1, dataset[n]>>]

\* the loop of _fill_day_dicts from the n-th record on; st holds the three
\* dicts so far.  An exception ends the loop where it is.
RECURSIVE FillFrom(_, _, _, _)
FillFrom(dataset, today, n, st) ==
  IF n > Len(dataset) THEN st
  ELSE
    LET i == enumerate(dataset)[n][1]
        record == enumerate(dataset)[n][2]
    IN IF "createdAt" \notin DOMAIN record
       THEN [st EXCEPT !.exc = Some(KeyError("createdAt", i))]
       ELSE LET b == BucketOf(record, today)
                r == _add_record(st[b], record, i)
            IN IF r.exc # None
               THEN [st EXCEPT ![b] = r.dict, !.exc = r.exc]
               ELSE FillFrom(dataset, today, n + 1, [st EXCEPT ![b] = r.dict])

_fill_day_dicts(dataset, today, d30, d60, d90) ==
  FillFrom(dataset, today, 1, [d30 |-> d30, d60 |-> d60, d90 |-> d90, exc |-> None])

(* ----------------------------- _load_data ----------------------------- *)
\* status_ok that accepts every response
status_ok_any(response) == response.status_code \in Int

\* the test of the response's status code
status_ok(response) == response.status_code = 200

_load_data ==
  /\ pc = "_load_data"
  /\ IF status_ok(api_response)
     THEN LET st == _fill_day_dicts(api_response.json, today_date,
                                    _all30_dict, _all60_dict, _all90_dict)
          IN /\ _dataset' = Some(api_response.json)
             /\ _all30_dict' = st.d30
             /\ _all60_dict' = st.d60
             /\ _all90_dict' = st.d90
             /\ exc' = st.exc
             /\ pc' = IF st.exc # None THEN "raised" ELSE "make_dataframes"
     ELSE /\ pc' = "make_dataframes"
          /\ UNCHANGED <<_dataset, buckets, exc>>
  /\ UNCHANGED <<api_response, today_date, frames, xlsx_file, sent_mail>>

(* --------------------------- make_dataframes -------------------------- *)
\* pd.DataFrame(days_dict, index=data_frame_INDEX).transpose(): one row per
\* key, one column per name of the index, NaN where the entry lacks the name
DataFrameT(days_dict, index) ==
  [k \in DOMAIN days_dict |->
     [c \in Range(index) |-> IF c \in DOMAIN days_dict[k] THEN Some(days_dict[k][c]) ELSE NaN]]

\* Count that counts the rows, NaN cells included
Count_rows(df, col) == Cardinality(DOMAIN df)

\* df.count()[col]: the number of non-NaN cells of the column
Count(df, col) == Cardinality({k \in DOMAIN df : df[k][col] # NaN})

\* the label a cell value is in a frequency table
AsLabel(col, v) == IF col = "Severity" THEN PyInt(v) ELSE PyStr(v)

\* value_counts that records a value's presence, not its frequency
value_counts_presence(df, col) ==
  LET present == {k \in DOMAIN df : df[k][col] # NaN}
      labels  == {AsLabel(col, df[k][col][1]) : k \in present}
  IN [l \in labels |-> 1]

\* df[col].value_counts().to_dict(): each non-NaN value of the column with
\* the number of rows that hold it
value_counts(df, col) ==
  LET present == {k \in DOMAIN df : df[k][col] # NaN}
      labels  == {AsLabel(col, df[k][col][1]) : k \in present}
  IN [l \in labels |-> Cardinality({k \in present : AsLabel(col, df[k][col][1]) = l})]

\* DataFrameIdx without index=: the rows are the labels the columns hold
DataFrameIdx_noindex(columns, index) ==
  [l \in UNION {DOMAIN columns[c] : c \in DOMAIN columns} |->
     [c \in DOMAIN columns |-> IF l \in DOMAIN columns[c] THEN Some(columns[c][l]) ELSE NaN]]

\* pd.DataFrame(columns, index=index) for a dict of dicts: the rows are the
\* labels of index, a cell is NaN where the column's dict lacks the label
DataFrameIdx(columns, index) ==
  [l \in Range(index) |->
     [c \in DOMAIN columns |-> IF l \in DOMAIN columns[c] THEN Some(columns[c][l]) ELSE NaN]]

\* df.fillna(value): no cell is NaN afterwards
fillna(df, value) ==
  [l \in DOMAIN df |-> [c \in DOMAIN df[l] |-> IF df[l][c] = NaN THEN value ELSE df[l][c][1]]]

\* the counts frame make_dataframes builds from the 30-day frame
CountsFrame(df30) ==
  fillna(DataFrameIdx([Created    |-> (PyStr("totals") :> Count(df30, "Created")),
                       Closed     |-> (PyStr("totals") :> Count(df30, "Closed")),
                       Owner      |-> value_counts(df30, "Owner"),
                       Resolution |-> value_counts(df30, "Resolution"),
                       Severity   |-> value_counts(df30, "Severity")],
                      counts_frame_INDEX),
         0)

make_dataframes ==
  /\ pc = "make_dataframes"
  /\ _data_frame_30days' = Some(DataFrameT(_all30_dict, data_frame_INDEX))
  /\ _data_frame_60days' = Some(DataFrameT(_all60_dict, data_frame_INDEX))
  /\ _data_frame_90days' = Some(DataFrameT(_all90_dict, data_frame_INDEX))
  /\ _data_frame_counts' = Some(CountsFrame(DataFrameT(_all30_dict, data_frame_INDEX)))
  /\ pc' = "make_charts"
  /\ UNCHANGED <<api_response, today_date, _dataset, buckets, xlsx_file, sent_mail, exc>>

(* ----------------------------- make_charts ---------------------------- *)
\* the titles of the four pie charts of the "Summary Charts" sheet
ChartTitles == {"New vs. Closed Cases", "Case Ownership", "Case Resolution", "Case Severities"}

\* the workbook written to "Hive Metrics.xlsx": the charts and the four
\* data sheets under their sheet names
make_charts ==
  /\ pc = "make_charts"
  /\ xlsx_file' = Some([charts |-> ChartTitles,
                        sheets |-> [Cases30  |-> _data_frame_30days[1],
                                    Cases60  |-> _data_frame_60days[1],
                                    Cases90  |-> _data_frame_90days[1],
                                    Tracking |-> _data_frame_counts[1]]])
  /\ pc' = "send_mail"
  /\ UNCHANGED <<api_response, today_date, _dataset, buckets, frames, sent_mail, exc>>

(* ------------------------------ send_mail ----------------------------- *)
\* the message carries the content of "Hive Metrics.xlsx" as its attachment
send_mail ==
  /\ pc = "send_mail"
  /\ sent_mail' = Some([Subject |-> "The Hive Case Metrics", payload |-> xlsx_file[1]])
  /\ pc' = "done"
  /\ UNCHANGED <<api_response, today_date, _dataset, buckets, frames, xlsx_file, exc>>

(* ------------------------------- inputs ------------------------------- *)
\* a raw case record: title, owner, severity, and createdAt, endDate and
\* resolutionStatus when given (None leaves the key out)
RawRecord(title, owner, severity, createdAt, endDate, resolutionStatus) ==
  [title |-> title, owner |-> owner, severity |-> severity]
    @@ (IF createdAt = None THEN <<>> ELSE ("createdAt" :> createdAt[1]))
    @@ (IF endDate = None THEN <<>> ELSE ("endDate" :> endDate[1]))
    @@ (IF resolutionStatus = None THEN <<>> ELSE ("resolutionStatus" :> resolutionStatus[1]))

Ms(s, ms) == [s |-> s, ms |-> ms]

\* createdAt values around the two cutoffs of BaseDay, and well inside each window
Cutoff30 == mktime(BaseDay - Days30)
Cutoff60 == mktime(BaseDay - Days60)
Recent == Ms(mktime(BaseDay - 5) + 3723, 0)
Middle == Ms(mktime(BaseDay - 45), 500)
Old    == Ms(mktime(BaseDay - 95), 0)
CutoffTimes ==
  { Ms(Cutoff30 - 1, 0), Ms(Cutoff30, 0), Ms(Cutoff30, 1), Ms(Cutoff30 + 1, 0),
    Ms(Cutoff60 - 1, 0), Ms(Cutoff60, 0), Ms(Cutoff60 + 1, 0) }

\* recent records that differ in their fields, and open and closed older ones
FieldRecords ==
  { RawRecord("case", o, sv, Some(Recent), e, r) :
      o \in {"Team.Member", "A"}, sv \in {1, 4},
      e \in {None, Some(Recent)},
      r \in {None, Some("TruePositive"), Some("Other")} }
  \cup
  { RawRecord("case", "Team.Member", 1, Some(Middle), e, r) :
      e \in {None, Some(Recent)},
      r \in {None, Some("TruePositive"), Some("Other")} }

\* records that differ in their age
WindowRecords ==
  { RawRecord("case", "A", 1, c, e[1], e[2]) :
      c \in {None} \cup {Some(t) : t \in CutoffTimes \cup {Recent, Middle, Old}},
      e \in {<<None, None>>, <<Some(Recent), Some("TruePositive")>>} }

RECURSIVE SeqsUpTo(_, _)
SeqsUpTo(S, n) ==
  IF n = 0 THEN {<<>>}
  ELSE LET shorter == SeqsUpTo(S, n - 1)
       IN shorter \cup {Append(q, x) : q \in {q \in shorter : Len(q) = n - 1}, x \in S}

StatusCodes == {200, 500}

\* the state __init__ leaves, for an API response and a date
InitWith(json, today) ==
  /\ api_response \in [status_code : StatusCodes, json : json]
  /\ today_date \in today
  /\ _dataset = None
  /\ _all30_dict = <<>>
  /\ _all60_dict = <<>>
  /\ _all90_dict = <<>>
  /\ _data_frame_30days = None
  /\ _data_frame_60days = None
  /\ _data_frame_90days = None
  /\ _data_frame_counts = None
  /\ xlsx_file = None
  /\ sent_mail = None
  /\ exc = None
  /\ pc = "_load_data"

Init == InitWith(SeqsUpTo(FieldRecords, MaxLen), {BaseDay})

InitWindow == InitWith(SeqsUpTo(WindowRecords, MaxLen), {BaseDay, BaseDay + 1})

\* run(): _load_data, make_dataframes, make_charts, send_mail, in this order
Next ==
  \/ _load_data
  \/ make_dataframes
  \/ make_charts
  \/ send_mail

Spec == Init /\ [][Next]_vars

SpecWindow == InitWindow /\ [][Next]_vars

(* ============================ properties ============================== *)
Dataset == api_response.json
Keys == 0 .. Len(Dataset) - 1
RecordOf(i) == Dataset[i + 1]
AllBuckets == {_all30_dict, _all60_dict, _all90_dict}

\* a raw record with its required fields: createdAt, and resolutionStatus
\* whenever endDate is given
WellFormed(record) ==
  /\ "createdAt" \in DOMAIN record
  /\ "endDate" \in DOMAIN record => "resolutionStatus" \in DOMAIN record

AllWellFormed == \A i \in Keys : WellFormed(RecordOf(i))

\* _fill_day_dicts has run over the dataset
Filled == _dataset # None

\* t is strictly later than the whole second secs
StrictlyAfter(t, secs) == ~(t.s < secs \/ (t.s = secs /\ t.ms = 0))

CutoffOf(days) == (today_date - days) * SecondsPerDay

(* ------------------------------- C1 ----------------------------------- *)
\* C1: after _fill_day_dicts has processed a dataset of well-formed records,
\* every index of the dataset is a key of exactly one bucket: the key sets
\* are pairwise disjoint, their sizes sum to the dataset size, and the entry
\* under key i is the one made from record i (nothing was overwritten).
C1_ExactlyOneBucket ==
  (Filled /\ AllWellFormed) =>
    /\ DOMAIN _all30_dict \cap DOMAIN _all60_dict = {}
    /\ DOMAIN _all30_dict \cap DOMAIN _all90_dict = {}
    /\ DOMAIN _all60_dict \cap DOMAIN _all90_dict = {}
    /\ DOMAIN _all30_dict \cup DOMAIN _all60_dict \cup DOMAIN _all90_dict = Keys
    /\ Cardinality(DOMAIN _all30_dict) + Cardinality(DOMAIN _all60_dict)
         + Cardinality(DOMAIN _all90_dict) = Len(Dataset)
    /\ \A d \in AllBuckets : \A i \in DOMAIN d :
         /\ i \in Keys
         /\ d[i].Created = strftime(gmtime(RecordOf(i)["createdAt"]))
         /\ ("Closed" \in DOMAIN d[i]) = ("endDate" \in DOMAIN RecordOf(i))

C1_Witness ==
  /\ Filled /\ AllWellFormed
  /\ Len(Dataset) >= 2
  /\ DOMAIN _all30_dict # {}
  /\ DOMAIN _all90_dict # {}
  /\ RecordOf(0)["createdAt"] # RecordOf(1)["createdAt"]

(* ------------------------------- C2 ----------------------------------- *)
\* C2: first-match rule, for every well-formed record and every today: the
\* record is in Within30 iff createdAt is strictly after today - 30 days;
\* otherwise in Within60 iff strictly after today - 60 days; otherwise in
\* Within90, however old it is.
C2_FirstMatch ==
  (Filled /\ AllWellFormed) =>
    \A i \in Keys :
      LET t == RecordOf(i)["createdAt"]
          a30 == StrictlyAfter(t, CutoffOf(30))
          a60 == StrictlyAfter(t, CutoffOf(60))
      IN /\ (i \in DOMAIN _all30_dict) = a30
         /\ (i \in DOMAIN _all60_dict) = (~a30 /\ a60)
         /\ (i \in DOMAIN _all90_dict) = (~a30 /\ ~a60)

\* a record exactly on the 30-day cutoff and a record older than 90 days
C2_Witness ==
  /\ Filled /\ AllWellFormed
  /\ \E i \in DOMAIN _all60_dict : RecordOf(i)["createdAt"] = Ms(CutoffOf(30), 0)
  /\ \E i \in DOMAIN _all90_dict : RecordOf(i)["createdAt"].s < CutoffOf(90)

(* ------------------------------- C3 ----------------------------------- *)
\* C3 as stated: a record created one second before the cutoff today - 30
\* days is in Within30, one created one second after it is in Within60.
C3_Original ==
  (Filled /\ AllWellFormed) =>
    \A i \in Keys :
      /\ RecordOf(i)["createdAt"] = Ms(CutoffOf(30) - 1, 0) => i \in DOMAIN _all30_dict
      /\ RecordOf(i)["createdAt"] = Ms(CutoffOf(30) + 1, 0) => i \in DOMAIN _all60_dict

\* C3 amended: a record created one second after the cutoff today - 30 days
\* is in Within30, one created one second before it is in Within60.
C3_CutoffBoundary ==
  (Filled /\ AllWellFormed) =>
    \A i \in Keys :
      /\ RecordOf(i)["createdAt"] = Ms(CutoffOf(30) + 1, 0) => i \in DOMAIN _all30_dict
      /\ RecordOf(i)["createdAt"] = Ms(CutoffOf(30) - 1, 0) => i \in DOMAIN _all60_dict

C3_Witness ==
  /\ Filled /\ AllWellFormed
  /\ \E i \in DOMAIN _all30_dict : RecordOf(i)["createdAt"] = Ms(CutoffOf(30) + 1, 0)
  /\ \E i \in DOMAIN _all60_dict : RecordOf(i)["createdAt"] = Ms(CutoffOf(30) - 1, 0)

(* ------------------------------- C4 ----------------------------------- *)
\* C4: in every reachable state every bucket entry has Closed iff it has
\* Resolution, and has Closed iff its raw record has an endDate.
C4_ClosedIffResolutionIffEndDate ==
  \A d \in AllBuckets : \A i \in DOMAIN d :
    /\ ("Closed" \in DOMAIN d[i]) = ("Resolution" \in DOMAIN d[i])
    /\ ("Closed" \in DOMAIN d[i]) = ("endDate" \in DOMAIN RecordOf(i))

(* ------------------------------- C5 ----------------------------------- *)
Counts == _data_frame_counts[1]
Totals == Counts[PyStr("totals")]

\* C5: after make_dataframes, totals.Created is the number of Within30
\* records, totals.Closed the number of Within30 records with a Closed
\* field, so Closed <= Created; Within60 and Within90 records count in neither.
C5_Totals ==
  _data_frame_counts # None =>
    /\ Totals.Created = Cardinality(DOMAIN _all30_dict)
    /\ Totals.Closed = Cardinality({i \in DOMAIN _all30_dict : "Closed" \in DOMAIN _all30_dict[i]})
    /\ Totals.Closed <= Totals.Created

\* an open Within30 record next to a closed Within60 record
C5_Witness ==
  /\ _data_frame_counts # None
  /\ \E i \in DOMAIN _all30_dict : "Closed" \notin DOMAIN _all30_dict[i]
  /\ \E i \in DOMAIN _all60_dict : "Closed" \in DOMAIN _all60_dict[i]
  /\ Totals.Created = 1 /\ Totals.Closed = 0

(* ------------------------------- C6 ----------------------------------- *)
RECURSIVE SumColumn(_, _, _)
SumColumn(df, col, labels) ==
  IF labels = <<>> THEN 0 ELSE df[Head(labels)][col] + SumColumn(df, col, Tail(labels))

\* the Within30 records whose field holds the label
With30(field, label) ==
  {i \in DOMAIN _all30_dict :
     field \in DOMAIN _all30_dict[i] /\
     (IF field = "Severity" THEN [int |-> _all30_dict[i][field]]
                            ELSE [str |-> _all30_dict[i][field]]) = label}

CountColumns == {"Created", "Closed", "Owner", "Resolution", "Severity"}

\* C7: after make_dataframes the summary has every row of
\* counts_frame_INDEX, every cell holds a number, a cell with no observed
\* data holds 0, and an empty Within30 bucket gives an all-zero summary
\* without an error.
C7_ZeroDefault ==
  _data_frame_counts # None =>
    /\ DOMAIN Counts = Range(counts_frame_INDEX)
    /\ \A l \in Range(counts_frame_INDEX) :
         /\ DOMAIN Counts[l] = CountColumns
         /\ \A c \in CountColumns : Counts[l][c] \in Nat
         /\ l # [str |-> "totals"] => Counts[l].Created = 0 /\ Counts[l].Closed = 0
         /\ \A c \in {"Owner", "Resolution", "Severity"} :
              With30(c, l) = {} => Counts[l][c] = 0
    /\ DOMAIN _all30_dict = {} =>
         /\ \A l \in Range(counts_frame_INDEX) : \A c \in CountColumns : Counts[l][c] = 0
         /\ exc = None

\* a summary of an empty Within30 bucket while older records exist
C7_Witness ==
  /\ _data_frame_counts # None
  /\ DOMAIN _all30_dict = {}
  /\ DOMAIN _all60_dict # {}
  /\ Counts[[str |-> "totals"]].Created = 0
  /\ Counts[[int |-> 3]].Severity = 0

(* ------------------------------- C8 ----------------------------------- *)
\* C8: when processing a record fails because a required field is missing,
\* an error is raised and the record's index is a key of no bucket afterwards.
C8_NoEntryForMalformed ==
  \A i \in Keys :
    (Filled /\ ~WellFormed(RecordOf(i)) /\ (\A j \in 0 .. i - 1 : WellFormed(RecordOf(j)))) =>
      /\ exc # None
      /\ \A d \in AllBuckets : i \notin DOMAIN d

(* ------------------------------- C9 ----------------------------------- *)
\* C9: a malformed record does not abort the batch: once _fill_day_dicts
\* has finished, every well-formed record is in a bucket, also the ones
\* that follow a malformed record.
C9_BatchNotAborted ==
  Filled => \A j \in Keys :
    WellFormed(RecordOf(j)) => \E d \in AllBuckets : j \in DOMAIN d

(* ------------------------------- C10 ---------------------------------- *)
AllZero(df) == \A l \in DOMAIN df : \A c \in DOMAIN df[l] : df[l][c] = 0

C10_State ==
  /\ ~(api_response.status_code = 200) =>
       /\ _all30_dict = <<>> /\ _all60_dict = <<>> /\ _all90_dict = <<>>
       /\ _dataset = None
       /\ pc # "raised"
       /\ pc = "done" =>
            /\ sent_mail # None
            /\ AllZero(sent_mail[1].payload.sheets.Tracking)
            /\ DOMAIN sent_mail[1].payload.sheets.Cases30 = {}
  /\ (\E d \in AllBuckets : DOMAIN d # {}) => api_response.status_code = 200
  /\ sent_mail # None => xlsx_file # None /\ _data_frame_counts # None

C10_Step ==
  /\ (pc = "_load_data" /\ ~(api_response.status_code = 200)) => pc' = "make_dataframes"
  /\ pc = "make_dataframes" => pc' = "make_charts"
  /\ pc = "make_charts" => pc' = "send_mail" /\ sent_mail' = None
  /\ pc = "send_mail" => pc' = "done" /\ sent_mail' # None

\* C10: when the status code is not 200, _load_data buckets nothing and
\* leaves _dataset unset, and run goes on through make_dataframes,
\* make_charts and send_mail in this order, sending an all-zero report;
\* records are bucketed only under status 200, and nothing is sent before
\* make_charts has written the workbook.
C10_Non200StillReports == [](C10_State) /\ [][C10_Step]_vars

\* the report of a failed response has been sent although the response
\* carried records
C10_Witness ==
  /\ api_response.status_code = 500
  /\ Len(Dataset) >= 1
  /\ pc = "done"
  /\ sent_mail # None

=============================================================================
